---- MODULE Spec2Model ----
(***************************************************************************)
(* Li et al. (2006) variational Helmholtz decomposition, psi_phi_local.py: *)
(* the driver psi_lietal, the objective ja, its gradient grad_ja, the      *)
(* forward operator derive_ax and the adjoint operator derive_adj.         *)
(*                                                                         *)
(* Arrays are 0-based functions, as in the source: a vector of length n is *)
(* a function on 0..n-1, an (R,C) array a function on 0..R-1 of functions  *)
(* on 0..C-1.  Real numbers are exact fixed-point integers: a caller that  *)
(* hands a vector to an operator first multiplies it by Scale, so that     *)
(* every division the operator performs (by a mean spacing, by 2.0) is     *)
(* exact.  A cell that can hold NaN is a record: F(n) or NaN.              *)
(***************************************************************************)
EXTENDS Integers, Sequences, FiniteSets, TLC

(***************************************************************************)
(* Bounds of the model.                                                    *)
(***************************************************************************)
MaxVal == 1
MaxInvalid == 1
MaxIter == 2

(***************************************************************************)
(* Numbers.                                                                *)
(***************************************************************************)
\* Spacings are drawn from {1, 3}: a mean spacing is 1, 2 or 3, and a
\* derivative is a difference divided by a mean spacing, then by 2.
Scale == 2 * 2 * 3
Scale2 == Scale * Scale

NaN == [nan |-> TRUE, v |-> 0]
F(n) == [nan |-> FALSE, v |-> n]
isnan(c) == c.nan
FNeg(c) == IF c.nan THEN NaN ELSE F(-c.v)
FAdd(a, b) == IF a.nan \/ b.nan THEN NaN ELSE F(a.v + b.v)

size(v) == Cardinality(DOMAIN v)
ZeroVec(n) == [k \in 0..(n-1) |-> 0]

RECURSIVE SumTo(_, _)
SumTo(f, n) == IF n = 0 THEN 0 ELSE f[n-1] + SumTo(f, n-1)

\* np.matmul(a.T, b) of two vectors of one length
matmul(a, b) == SumTo([k \in DOMAIN a |-> a[k] * b[k]], size(a))

(***************************************************************************)
(* Boolean-mask indexing, v[IDATA] and er[IDATA] = e.                      *)
(***************************************************************************)
\* the number of true entries of mask at the indices below k
CountTrue(mask, k) == Cardinality({i \in 0..(k-1) : mask[i]})

\* the 0-based vector of the entries of the sequence s
FromSeq(s) == [k \in 0..(Len(s)-1) |-> s[k+1]]

RECURSIVE Cells(_, _, _)
\* the sequence f[lo], ..., f[hi-1]
Cells(f, lo, hi) ==
    IF hi <= lo THEN <<>>
    ELSE IF hi = lo + 1 THEN <<f[lo]>>
    ELSE Cells(f, lo, (lo + hi) \div 2) \o Cells(f, (lo + hi) \div 2, hi)

\* the vector f as an array: every entry is computed once
Array(f) == FromSeq(Cells(f, 0, size(f)))

\* v[mask]: the entries of v at the true positions of mask, in order
MaskSelect(v, mask) ==
    Array([r \in 0..(CountTrue(mask, size(mask)) - 1) |->
              v[CHOOSE k \in DOMAIN mask : mask[k] /\ CountTrue(mask, k) = r]])

\* er = np.zeros(n); er[mask] = e
MaskScatter(e, mask) ==
    Array([k \in DOMAIN mask |-> IF mask[k] THEN e[CountTrue(mask, k)] ELSE 0])

(***************************************************************************)
(* reshape, row-major.                                                     *)
(***************************************************************************)
\* a.reshape((R, C)) of the segment of a that starts at offset off
reshape(a, off, R, C) ==
    [i \in 0..(R-1) |-> [j \in 0..(C-1) |-> a[off + i*C + j]]]

\* A.reshape(R*C), read at flat index k
flat(A, C, k) == A[k \div C][k % C]

(***************************************************************************)
(* derive_ax: velocity from psi and phi.                                   *)
(***************************************************************************)
derive_ax_full(x, DX, DY, M1, N1) ==
    LET psi == reshape(x, 0, M1, N1)
        phi == reshape(x, M1*N1, M1, N1)
        ddy(f) == [i \in 0..(M1-2) |-> [j \in 0..(N1-1) |->
                     (f[i+1][j] - f[i][j]) \div ((DY[i+1][j] + DY[i][j]) \div 2)]]
        ddx(f) == [i \in 0..(M1-1) |-> [j \in 0..(N1-2) |->
                     (f[i][j+1] - f[i][j]) \div ((DX[i][j+1] + DX[i][j]) \div 2)]]
        dpsidy == ddy(psi)
        dpsidx == ddx(psi)
        dphidy == ddy(phi)
        dphidx == ddx(phi)
        u == [i \in 0..(M1-2) |-> [j \in 0..(N1-2) |->
                ((dpsidy[i][j+1] + dpsidy[i][j]) \div 2)
              + ((dphidx[i+1][j] + dphidx[i][j]) \div 2)]]
        v == [i \in 0..(M1-2) |-> [j \in 0..(N1-2) |->
                ((-(dpsidx[i+1][j] + dpsidx[i][j])) \div 2)
              + ((dphidy[i][j+1] + dphidy[i][j]) \div 2)]]
        half == (M1-1)*(N1-1)
    IN  [k \in 0..(2*half - 1) |->
            IF k < half THEN flat(u, N1-1, k) ELSE flat(v, N1-1, k - half)]

derive_ax(x, DX, DY, M1, N1, IDATA) ==
    MaskSelect(derive_ax_full(x, DX, DY, M1, N1), IDATA)

(***************************************************************************)
(* derive_adj: curl and divergence of a velocity residual.                 *)
(***************************************************************************)
\* np.ones((M1,N1))*np.nan with the interior [1:-1,1:-1] set to inner
WithInterior(inner, M1, N1) ==
    [i \in 0..(M1-1) |-> [j \in 0..(N1-1) |->
        IF i \in 1..(M1-2) /\ j \in 1..(N1-2) THEN F(inner[i-1][j-1]) ELSE NaN]]

\* A[:,dst] = A[:,src]
CopyCol(A, dst, src) ==
    [i \in DOMAIN A |-> [j \in DOMAIN A[i] |-> IF j = dst THEN A[i][src] ELSE A[i][j]]]

\* A[dst,:] = A[src,:]
CopyRow(A, dst, src) ==
    [i \in DOMAIN A |-> [j \in DOMAIN A[i] |-> IF i = dst THEN A[src][j] ELSE A[i][j]]]

\* A[1:-1,col] = vals
SetColInner(A, col, vals) ==
    [i \in DOMAIN A |-> [j \in DOMAIN A[i] |->
        IF j = col /\ i \in 1..(size(A)-2) THEN F(vals[i-1]) ELSE A[i][j]]]

\* A[row,1:-1] = vals
SetRowInner(A, row, vals) ==
    [i \in DOMAIN A |-> [j \in DOMAIN A[i] |->
        IF i = row /\ j \in 1..(size(A[i])-2) THEN F(vals[j-1]) ELSE A[i][j]]]

\* ClosedZonal without the copy into the east column
ClosedZonalWestOnly(A, N1) == CopyCol(A, 0, 1)

\* closed zonal edges: A[:,0] = A[:,1]; A[:,-1] = A[:,-2]
ClosedZonal(A, N1) == CopyCol(CopyCol(A, 0, 1), N1-1, N1-2)

\* closed meridional edges: A[0,:] = A[1,:]; A[-1,:] = A[-2,:]
ClosedMeridional(A, M1) == CopyRow(CopyRow(A, 0, 1), M1-1, M1-2)

\* (a[1:] + a[:-1]) / 2.0 of a vector a
Mid(a) == [k \in 0..(size(a)-2) |-> (a[k+1] + a[k]) \div 2]

\* The curl and divergence arrays of shape (M1,N1) that derive_adj builds.
derive_adj_fields(e, DX, DY, M1, N1, ZBC, MBC, IDATA) ==
    LET half == (M1-1)*(N1-1)
        er == MaskScatter(e, IDATA)
        u == reshape(er, 0, M1-1, N1-1)
        v == reshape(er, half, M1-1, N1-1)
        L == N1-2
        K == M1-2
        dy == [i \in 0..(M1-3) |-> [j \in 0..(N1-2) |-> (DY[i+1][j+1] + DY[i+1][j]) \div 2]]
        dx == [i \in 0..(M1-2) |-> [j \in 0..(N1-3) |-> (DX[i+1][j+1] + DX[i][j+1]) \div 2]]
        \* (f[1:,:]-f[:-1,:])/dy, then the mean of adjacent columns
        ddy0(f) == [i \in 0..(M1-3) |-> [j \in 0..(N1-2) |-> (f[i+1][j] - f[i][j]) \div dy[i][j]]]
        ddy(f) == [i \in 0..(M1-3) |-> [j \in 0..(N1-3) |->
                     (ddy0(f)[i][j+1] + ddy0(f)[i][j]) \div 2]]
        \* (f[:,1:]-f[:,:-1])/dx, then the mean of adjacent rows
        ddx0(f) == [i \in 0..(M1-2) |-> [j \in 0..(N1-3) |-> (f[i][j+1] - f[i][j]) \div dx[i][j]]]
        ddx(f) == [i \in 0..(M1-3) |-> [j \in 0..(N1-3) |->
                     (ddx0(f)[i+1][j] + ddx0(f)[i][j]) \div 2]]
        dudy == ddy(u)
        dvdx == ddx(v)
        dvdy == ddy(v)
        dudx == ddx(u)
        curl == [i \in 0..(M1-3) |-> [j \in 0..(N1-3) |-> dvdx[i][j] - dudy[i][j]]]
        div == [i \in 0..(M1-3) |-> [j \in 0..(N1-3) |-> dudx[i][j] + dvdy[i][j]]]
        curl1 == WithInterior(curl, M1, N1)
        div1 == WithInterior(div, M1, N1)
        \* ZBC == 'periodic'
        zdy_1(f) == [i \in 0..(M1-3) |-> (f[i+1][0] - f[i][0]) \div dy[i][0]]
        zdy_2(f) == [i \in 0..(M1-3) |-> (f[i+1][L] - f[i][L]) \div dy[i][L]]
        zdx_1(f) == [i \in 0..(M1-2) |-> (f[i][0] - f[i][L]) \div dx[i][0]]
        zdx_2(f) == zdx_1(f)
        zcurl(A) == SetColInner(
                      SetColInner(A, 0,
                        [i \in 0..(M1-3) |-> Mid(zdx_1(v))[i] - zdy_1(u)[i]]),
                      N1-1,
                        [i \in 0..(M1-3) |-> Mid(zdx_2(v))[i] - zdy_2(u)[i]])
        zdiv(A) == SetColInner(
                      SetColInner(A, 0,
                        [i \in 0..(M1-3) |-> Mid(zdx_1(u))[i] + zdy_1(v)[i]]),
                      N1-1,
                        [i \in 0..(M1-3) |-> Mid(zdx_2(u))[i] + zdy_2(v)[i]])
        \* MBC == 'periodic'
        mdy_1(f) == [j \in 0..(N1-2) |-> (f[0][j] - f[K][j]) \div dy[0][j]]
        mdy_2(f) == mdy_1(f)
        mdx_1(f) == [j \in 0..(N1-3) |-> (f[0][j+1] - f[0][j]) \div dx[0][j]]
        mdx_2(f) == [j \in 0..(N1-3) |-> (f[K][j+1] - f[K][j]) \div dx[K][j]]
        mcurl(A) == SetRowInner(
                      SetRowInner(A, 0,
                        [j \in 0..(N1-3) |-> mdx_1(v)[j] - Mid(mdy_1(u))[j]]),
                      M1-1,
                        [j \in 0..(N1-3) |-> mdx_2(v)[j] - Mid(mdy_2(u))[j]])
        mdiv(A) == SetRowInner(
                      SetRowInner(A, 0,
                        [j \in 0..(N1-3) |-> mdx_1(u)[j] + Mid(mdy_1(v))[j]]),
                      M1-1,
                        [j \in 0..(N1-3) |-> mdx_2(u)[j] + Mid(mdy_2(v))[j]])
        \* the zonal treatment, then the meridional one
        zonal(A, per(_)) == IF ZBC = "periodic" THEN per(A) ELSE ClosedZonal(A, N1)
        merid(A, per(_)) == IF MBC = "periodic" THEN per(A) ELSE ClosedMeridional(A, M1)
        \* all closed edges
        closed(A, inner) ==
            ClosedZonal(SetRowInner(SetRowInner(A, 0, inner[0]), M1-1, inner[M1-3]), N1)
    IN  IF ZBC = "periodic" \/ MBC = "periodic"
        THEN [curl |-> merid(zonal(curl1, zcurl), mcurl),
              div  |-> merid(zonal(div1, zdiv), mdiv)]
        ELSE [curl |-> closed(curl1, curl),
              div  |-> closed(div1, div)]

derive_adj(e, DX, DY, M1, N1, ZBC, MBC, IDATA) ==
    LET f == derive_adj_fields(e, DX, DY, M1, N1, ZBC, MBC, IDATA)
    IN  [k \in 0..(2*M1*N1 - 1) |->
            IF k < M1*N1 THEN flat(f.curl, N1, k)
            ELSE FNeg(flat(f.div, N1, k - M1*N1))]

(***************************************************************************)
(* ja and grad_ja.  x and y are in units of 1/Scale2; ja returns 2*J in    *)
(* units of 1/Scale2^2 (the factors 0.5 are not applied), grad_ja returns  *)
(* the gradient in units of 1/Scale2.                                      *)
(***************************************************************************)
ja(x, y, DX, DY, M1, N1, IDATA, ZBC, MBC, ALPHA) ==
    LET Ax == derive_ax(x, DX, DY, M1, N1, IDATA)
        e == [k \in DOMAIN y |-> y[k] - Ax[k]]
        Mat1 == matmul(e, e)
        Mat2 == matmul(x, x)
    IN  Mat1 + ALPHA * Mat2

grad_ja(x, y, DX, DY, M1, N1, IDATA, ZBC, MBC, ALPHA) ==
    LET Ax == derive_ax(x, DX, DY, M1, N1, IDATA)
        e == [k \in DOMAIN y |-> y[k] - Ax[k]]
        adj == derive_adj(e, DX, DY, M1, N1, ZBC, MBC, IDATA)
    IN  [k \in DOMAIN x |-> FAdd(FNeg(adj[k]), F(ALPHA * x[k]))]

(***************************************************************************)
(* State.                                                                  *)
(***************************************************************************)
VARIABLES
    M1, N1,          \* shape of the field grid
    DX, DY,          \* spacing grids
    ZBC, MBC,        \* boundary-condition tags
    ALPHA,           \* regularization weight
    IDATA,           \* validity mask over the flattened (U,V)
    x, y, e,         \* decision vector, observation vector, residual vector
    ax, adj, J, gj,  \* results of derive_ax, derive_adj, ja, grad_ja
    fd,              \* centered differences of ja, one per component of x
    IPSI, IPHI, U, V,\* the arrays handed to psi_lietal
    psi, phi, u, v,  \* re-organized fields and resized residual
    pc,              \* position of the running call
    pq,              \* result object of the minimizer
    ret,             \* what psi_lietal returned
    nit,             \* iterations the minimizer has made
    clock,           \* whether the interpreter still has time.clock
    done             \* the operators applied so far

vars == <<M1, N1, DX, DY, ZBC, MBC, ALPHA, IDATA, x, y, e, ax, adj, J, gj, fd,
          IPSI, IPHI, U, V, psi, phi, u, v, pc, pq, ret, nit, clock, done>>

Empty == [k \in {} |-> 0]

(***************************************************************************)
(* Inputs.                                                                 *)
(***************************************************************************)
Tags == {"closed", "periodic"}

\* a spacing grid of one value, and one that alternates 1 and 3
Uniform(R, C, d) == [i \in 0..(R-1) |-> [j \in 0..(C-1) |-> d]]
Graded(R, C) == [i \in 0..(R-1) |-> [j \in 0..(C-1) |-> IF (i + j) % 2 = 0 THEN 1 ELSE 3]]
SpacingGrids(R, C) == {Uniform(R, C, 1), Graded(R, C)}

\* vectors of length n with at most one nonzero entry, of magnitude <= MaxVal
SparseVecs(n) ==
    {ZeroVec(n)} \cup {[ZeroVec(n) EXCEPT ![k] = a] : k \in 0..(n-1), a \in 1..MaxVal}

\* masks of length n with at most MaxInvalid false entries
Masks(n) ==
    {[k \in 0..(n-1) |-> k \notin S] :
        S \in {T \in SUBSET (0..(n-1)) : Cardinality(T) <= MaxInvalid}}
AllValid(n) == [k \in 0..(n-1) |-> TRUE]

\* multiply a vector by c (to fixed-point units)
Times(c, w) == [k \in DOMAIN w |-> c * w[k]]

\* a vector of length n of one value
Const(n, a) == [k \in 0..(n-1) |-> a]

\* the unit vector k of length n times h
Unit(n, k, h) == [i \in 0..(n-1) |-> IF i = k THEN h ELSE 0]

\* the variables of a call of psi_lietal, while only operators are applied
NoCall ==
    /\ IPSI = Empty /\ IPHI = Empty /\ U = Empty /\ V = Empty
    /\ psi = Empty /\ phi = Empty /\ u = Empty /\ v = Empty
    /\ pq = Empty /\ ret = Empty /\ nit = 0 /\ clock = TRUE

(***************************************************************************)
(* derive_adj applied to drawn residuals, on a 3x3 and on a 4x6 grid.      *)
(***************************************************************************)
AdjShapes == {<<3, 3>>, <<4, 6>>}

InitAdj ==
    /\ \E s \in AdjShapes : M1 = s[1] /\ N1 = s[2]
    /\ DX \in SpacingGrids(M1, N1)
    /\ DY \in SpacingGrids(M1, N1)
    /\ ZBC \in Tags
    /\ MBC \in Tags
    /\ ALPHA = 0
    /\ IDATA \in (IF M1 * N1 <= 9 THEN Masks(2*(M1-1)*(N1-1))
                                  ELSE {AllValid(2*(M1-1)*(N1-1))})
    /\ e \in SparseVecs(CountTrue(IDATA, size(IDATA)))
    /\ x = Empty /\ y = Empty
    /\ ax = Empty /\ adj = Empty /\ J = 0 /\ gj = Empty /\ fd = Empty
    /\ NoCall
    /\ pc = "operators"
    /\ done = {}

DoDeriveAdj ==
    /\ pc = "operators"
    /\ e # Empty
    /\ "derive_adj" \notin done
    /\ adj' = derive_adj(Times(Scale, e), DX, DY, M1, N1, ZBC, MBC, IDATA)
    /\ done' = done \cup {"derive_adj"}
    /\ UNCHANGED <<M1, N1, DX, DY, ZBC, MBC, ALPHA, IDATA, x, y, e, ax, J, gj, fd,
                   IPSI, IPHI, U, V, psi, phi, u, v, pc, pq, ret, nit, clock>>

NextAdj == DoDeriveAdj

SpecAdj == InitAdj /\ [][NextAdj]_vars

(***************************************************************************)
(* derive_ax applied to a drawn x and derive_adj to a drawn e, on a 3x3    *)
(* grid.                                                                   *)
(***************************************************************************)
InitIdentity ==
    /\ M1 = 3 /\ N1 = 3
    /\ DX \in SpacingGrids(M1, N1)
    /\ DY \in SpacingGrids(M1, N1)
    /\ ZBC \in Tags
    /\ MBC \in Tags
    /\ ALPHA = 0
    /\ IDATA \in Masks(2*(M1-1)*(N1-1))
    /\ x \in SparseVecs(2*M1*N1)
    /\ e \in SparseVecs(CountTrue(IDATA, size(IDATA)))
    /\ y = Empty
    /\ ax = Empty /\ adj = Empty /\ J = 0 /\ gj = Empty /\ fd = Empty
    /\ NoCall
    /\ pc = "operators"
    /\ done = {}

DoDeriveAx ==
    /\ pc = "operators"
    /\ x # Empty
    /\ "derive_ax" \notin done
    /\ ax' = derive_ax(Times(Scale, x), DX, DY, M1, N1, IDATA)
    /\ done' = done \cup {"derive_ax"}
    /\ UNCHANGED <<M1, N1, DX, DY, ZBC, MBC, ALPHA, IDATA, x, y, e, adj, J, gj, fd,
                   IPSI, IPHI, U, V, psi, phi, u, v, pc, pq, ret, nit, clock>>

NextIdentity == DoDeriveAx \/ DoDeriveAdj

SpecIdentity == InitIdentity /\ [][NextIdentity]_vars

(***************************************************************************)
(* ja and grad_ja applied to a drawn x and y, on a 3x3 grid.  x and y are  *)
(* handed over in units of 1/Scale2; the step h of the centered difference *)
(* is 1, that is Scale2 units.                                             *)
(***************************************************************************)
InitGrad ==
    /\ M1 = 3 /\ N1 = 3
    /\ DX \in SpacingGrids(M1, N1)
    /\ DY = DX
    /\ ZBC \in Tags
    /\ MBC \in Tags
    /\ ALPHA \in {0, 1}
    /\ IDATA \in Masks(2*(M1-1)*(N1-1))
    /\ x \in SparseVecs(2*M1*N1)
    /\ y \in {Const(CountTrue(IDATA, size(IDATA)), a) : a \in 0..MaxVal}
    /\ e = Empty
    /\ ax = Empty /\ adj = Empty /\ J = 0 /\ gj = Empty /\ fd = Empty
    /\ NoCall
    /\ pc = "operators"
    /\ done = {}

\* (ja(x + h*e_k) - ja(x - h*e_k)) / (2h) for every k, in units of 1/Scale2:
\* ja returns 2*J in units of 1/Scale2^2
CenteredDifference(xs, ys) ==
    [k \in DOMAIN xs |->
        LET n == size(xs)
            xp == [i \in DOMAIN xs |-> xs[i] + Unit(n, k, Scale2)[i]]
            xm == [i \in DOMAIN xs |-> xs[i] - Unit(n, k, Scale2)[i]]
        IN  (ja(xp, ys, DX, DY, M1, N1, IDATA, ZBC, MBC, ALPHA)
               - ja(xm, ys, DX, DY, M1, N1, IDATA, ZBC, MBC, ALPHA)) \div (4 * Scale2)]

DoJa ==
    /\ pc = "operators"
    /\ y # Empty
    /\ "ja" \notin done
    /\ J' = ja(Times(Scale2, x), Times(Scale2, y), DX, DY, M1, N1, IDATA, ZBC, MBC, ALPHA)
    /\ fd' = CenteredDifference(Times(Scale2, x), Times(Scale2, y))
    /\ done' = done \cup {"ja"}
    /\ UNCHANGED <<M1, N1, DX, DY, ZBC, MBC, ALPHA, IDATA, x, y, e, ax, adj, gj,
                   IPSI, IPHI, U, V, psi, phi, u, v, pc, pq, ret, nit, clock>>

DoGradJa ==
    /\ pc = "operators"
    /\ y # Empty
    /\ "grad_ja" \notin done
    /\ gj' = grad_ja(Times(Scale2, x), Times(Scale2, y), DX, DY, M1, N1, IDATA, ZBC, MBC, ALPHA)
    /\ done' = done \cup {"grad_ja"}
    /\ UNCHANGED <<M1, N1, DX, DY, ZBC, MBC, ALPHA, IDATA, x, y, e, ax, adj, J, fd,
                   IPSI, IPHI, U, V, psi, phi, u, v, pc, pq, ret, nit, clock>>

NextGrad == DoJa \/ DoGradJa

SpecGrad == InitGrad /\ [][NextGrad]_vars

(***************************************************************************)
(* psi_lietal.                                                             *)
(***************************************************************************)
rows(A) == size(A)
cols(A) == size(A[0])
shape(A) == <<rows(A), cols(A)>>

\* A.reshape(rows*cols): the cells of A in row-major order of A's own shape
ravel(A) == [k \in 0..(rows(A)*cols(A) - 1) |-> flat(A, cols(A), k)]

\* lines 52-58: y = (U11,U12,...,V11,V12,...), before the NaNs are removed
VelocityVector(Uin, Vin) ==
    LET M == rows(Uin)
        N == cols(Uin)
    IN  [k \in 0..(2*M*N - 1) |-> IF k < M*N THEN ravel(Uin)[k] ELSE ravel(Vin)[k - M*N]]

\* line 60: idata = ~np.isnan(y)
ValidMask(yfull) == [k \in DOMAIN yfull |-> ~isnan(yfull[k])]

\* line 61: y = y[idata]
Observations(yfull) ==
    MaskSelect([k \in DOMAIN yfull |-> yfull[k].v], ValidMask(yfull))

\* FieldVector with the phi segment first
FieldVectorPhiFirst(Psi, Phi) ==
    LET n == rows(Psi) * cols(Psi)
    IN  [k \in 0..(2*n - 1) |-> IF k < n THEN ravel(Phi)[k] ELSE ravel(Psi)[k - n]]

\* lines 65-71: x = (PSI11,PSI12,...,PHI11,PHI12,...)
FieldVector(Psi, Phi) ==
    LET n == rows(Psi) * cols(Psi)
    IN  [k \in 0..(2*n - 1) |-> IF k < n THEN ravel(Psi)[k] ELSE ravel(Phi)[k - n]]

\* V.reshape(M*N) and IPHI.reshape(M1*N1) need arrays of that many cells
CanVectorize ==
    /\ rows(V) * cols(V) = rows(U) * cols(U)
    /\ rows(IPHI) * cols(IPHI) = rows(IPSI) * cols(IPSI)

\* lines 50-71
Vectorize ==
    /\ pc = "start"
    /\ CanVectorize
    /\ y' = Observations(VelocityVector(U, V))
    /\ IDATA' = ValidMask(VelocityVector(U, V))
    /\ x' = FieldVector(IPSI, IPHI)
    /\ pc' = "vectorized"
    /\ UNCHANGED <<M1, N1, DX, DY, ZBC, MBC, ALPHA, e, ax, adj, J, gj, fd,
                   IPSI, IPHI, U, V, psi, phi, u, v, pq, ret, nit, clock, done>>

\* lines 58, 71: reshape raises ValueError
VectorizeRaises ==
    /\ pc = "start"
    /\ ~CanVectorize
    /\ pc' = "raised"
    /\ UNCHANGED <<M1, N1, DX, DY, ZBC, MBC, ALPHA, IDATA, x, y, e, ax, adj, J, gj, fd,
                   IPSI, IPHI, U, V, psi, phi, u, v, pq, ret, nit, clock, done>>

\* lines 74-75: time.clock() is gone from Python 3.8 on (AttributeError)
StartClock ==
    /\ pc = "vectorized"
    /\ pc' = IF clock THEN "minimize" ELSE "raised"
    /\ UNCHANGED <<M1, N1, DX, DY, ZBC, MBC, ALPHA, IDATA, x, y, e, ax, adj, J, gj, fd,
                   IPSI, IPHI, U, V, psi, phi, u, v, pq, ret, nit, clock, done>>

\* derive_ax line 182 and derive_adj line 202: a boolean index of another
\* length than the indexed vector raises IndexError
\* (numpy 1.13 and later; the mask has 2*M*N entries, M,N = U.shape)
CanIndex == size(IDATA) = 2*(M1-1)*(N1-1)

\* line 76: the minimizer calls ja and grad_ja at its current iterate
Evaluate ==
    /\ pc = "minimize"
    /\ CanIndex
    /\ J' = ja(Times(Scale2, x), Times(Scale2, y), DX, DY, M1, N1, IDATA, ZBC, MBC, ALPHA)
    /\ gj' = grad_ja(Times(Scale2, x), Times(Scale2, y), DX, DY, M1, N1, IDATA, ZBC, MBC, ALPHA)
    /\ pc' = "evaluated"
    /\ UNCHANGED <<M1, N1, DX, DY, ZBC, MBC, ALPHA, IDATA, x, y, e, ax, adj, fd,
                   IPSI, IPHI, U, V, psi, phi, u, v, pq, ret, nit, clock, done>>

\* the IndexError of ja leaves minimize and psi_lietal
EvaluateRaises ==
    /\ pc = "minimize"
    /\ ~CanIndex
    /\ pc' = "raised"
    /\ UNCHANGED <<M1, N1, DX, DY, ZBC, MBC, ALPHA, IDATA, x, y, e, ax, adj, J, gj, fd,
                   IPSI, IPHI, U, V, psi, phi, u, v, pq, ret, nit, clock, done>>

\* the components the minimizer's step changes
StepCells == {0, M1*N1}

\* the minimizer moves to its next iterate
Iterate ==
    /\ pc = "evaluated"
    /\ nit < MaxIter
    /\ \E k \in StepCells, d \in {-1, 1} : x' = [x EXCEPT ![k] = @ + d]
    /\ nit' = nit + 1
    /\ pc' = "minimize"
    /\ UNCHANGED <<M1, N1, DX, DY, ZBC, MBC, ALPHA, IDATA, y, e, ax, adj, J, gj, fd,
                   IPSI, IPHI, U, V, psi, phi, u, v, pq, ret, clock, done>>

HasNaN(g) == \E k \in DOMAIN g : isnan(g[k])

\* the minimizer stops: converged, or stopped abnormally on a NaN gradient
Stop ==
    /\ pc = "evaluated"
    /\ pq' = [x |-> x, fun |-> J, success |-> ~HasNaN(gj)]
    /\ pc' = "minimized"
    /\ UNCHANGED <<M1, N1, DX, DY, ZBC, MBC, ALPHA, IDATA, x, y, e, ax, adj, J, gj, fd,
                   IPSI, IPHI, U, V, psi, phi, u, v, ret, nit, clock, done>>

\* the minimizer stops because its iteration budget is exhausted
Exhaust ==
    /\ pc = "evaluated"
    /\ nit = MaxIter
    /\ pq' = [x |-> x, fun |-> J, success |-> FALSE]
    /\ pc' = "minimized"
    /\ UNCHANGED <<M1, N1, DX, DY, ZBC, MBC, ALPHA, IDATA, x, y, e, ax, adj, J, gj, fd,
                   IPSI, IPHI, U, V, psi, phi, u, v, ret, nit, clock, done>>

\* lines 79-87: psi and phi of pq.x are returned, and nothing else
Return ==
    /\ pc = "minimized"
    /\ psi' = reshape(pq.x, 0, M1, N1)
    /\ phi' = reshape(pq.x, M1*N1, M1, N1)
    /\ ret' = [psi |-> psi', phi |-> phi']
    /\ pc' = "returned"
    /\ UNCHANGED <<M1, N1, DX, DY, ZBC, MBC, ALPHA, IDATA, x, y, e, ax, adj, J, gj, fd,
                   IPSI, IPHI, U, V, u, v, pq, nit, clock, done>>

\* arrays of one value
Zeros(s) == [i \in 0..(s[1]-1) |-> [j \in 0..(s[2]-1) |-> 0]]
Full(s, c) == [i \in 0..(s[1]-1) |-> [j \in 0..(s[2]-1) |-> c]]

FieldShapes == {<<3, 3>>, <<3, 4>>}
OtherFieldShapes == {<<3, 3>>, <<3, 4>>, <<4, 3>>}
VelocityShapes == {<<2, 2>>, <<2, 3>>, <<3, 2>>}
AnyTags == {"closed", "periodic", "open"}

\* DX and DY have the shape of IPSI.
Init ==
    /\ IPSI \in {Zeros(s) : s \in FieldShapes}
    /\ IPHI \in {Zeros(s) : s \in OtherFieldShapes}
    /\ M1 = rows(IPSI) /\ N1 = cols(IPSI)
    /\ DX = Uniform(M1, N1, 1)
    /\ DY = Uniform(M1, N1, 1)
    /\ U \in {Full(s, c) : s \in VelocityShapes, c \in {NaN, F(1)}}
    /\ V \in {Full(s, c) : s \in VelocityShapes, c \in {NaN, F(1)}}
    /\ ZBC \in AnyTags
    /\ MBC \in AnyTags
    /\ ALPHA \in {0, 1}
    /\ clock \in BOOLEAN
    /\ IDATA = Empty /\ x = Empty /\ y = Empty /\ e = Empty
    /\ ax = Empty /\ adj = Empty /\ J = 0 /\ gj = Empty /\ fd = Empty
    /\ psi = Empty /\ phi = Empty /\ u = Empty /\ v = Empty
    /\ pq = Empty /\ ret = Empty /\ nit = 0
    /\ pc = "start"
    /\ done = {}

Next ==
    \/ Vectorize
    \/ VectorizeRaises
    \/ StartClock
    \/ Evaluate
    \/ EvaluateRaises
    \/ Iterate
    \/ Stop
    \/ Exhaust
    \/ Return

Spec == Init /\ [][Next]_vars

(***************************************************************************)
(* Packing and its inverses: psi_lietal builds x, y and the mask;          *)
(* derive_ax re-organizes x, derive_adj resizes a valid-only vector.       *)
(***************************************************************************)
\* the (R,C) velocity pair whose valid cells are those of mask, in order w
Velocity(R, C, mask, w, first) ==
    [i \in 0..(R-1) |-> [j \in 0..(C-1) |->
        LET k == first + i*C + j
        IN  IF mask[k] THEN F(w[CountTrue(mask, k)]) ELSE NaN]]

InitPack ==
    /\ \E s \in FieldShapes : M1 = s[1] /\ N1 = s[2]
    /\ \E x0 \in SparseVecs(2*M1*N1) :
          /\ IPSI = reshape(x0, 0, M1, N1)
          /\ IPHI = reshape(x0, M1*N1, M1, N1)
    /\ \E mask \in Masks(2*(M1-1)*(N1-1)) :
          \E w \in SparseVecs(CountTrue(mask, size(mask))) :
             /\ U = Velocity(M1-1, N1-1, mask, w, 0)
             /\ V = Velocity(M1-1, N1-1, mask, w, (M1-1)*(N1-1))
    /\ DX = Uniform(M1, N1, 1)
    /\ DY = Uniform(M1, N1, 1)
    /\ ZBC = "closed" /\ MBC = "closed" /\ ALPHA = 0 /\ clock = TRUE
    /\ IDATA = Empty /\ x = Empty /\ y = Empty /\ e = Empty
    /\ ax = Empty /\ adj = Empty /\ J = 0 /\ gj = Empty /\ fd = Empty
    /\ psi = Empty /\ phi = Empty /\ u = Empty /\ v = Empty
    /\ pq = Empty /\ ret = Empty /\ nit = 0
    /\ pc = "start"
    /\ done = {}

\* derive_ax lines 162-164, applied to the x that psi_lietal built
Reorganize ==
    /\ pc = "vectorized"
    /\ "reorganize" \notin done
    /\ psi' = reshape(x, 0, M1, N1)
    /\ phi' = reshape(x, M1*N1, M1, N1)
    /\ done' = done \cup {"reorganize"}
    /\ UNCHANGED <<M1, N1, DX, DY, ZBC, MBC, ALPHA, IDATA, x, y, e, ax, adj, J, gj, fd,
                   IPSI, IPHI, U, V, u, v, pc, pq, ret, nit, clock>>

\* derive_adj lines 200-211, applied to the y and the mask that psi_lietal built
Resize ==
    /\ pc = "vectorized"
    /\ "resize" \notin done
    /\ u' = reshape(MaskScatter(y, IDATA), 0, M1-1, N1-1)
    /\ v' = reshape(MaskScatter(y, IDATA), (M1-1)*(N1-1), M1-1, N1-1)
    /\ done' = done \cup {"resize"}
    /\ UNCHANGED <<M1, N1, DX, DY, ZBC, MBC, ALPHA, IDATA, x, y, e, ax, adj, J, gj, fd,
                   IPSI, IPHI, U, V, psi, phi, pc, pq, ret, nit, clock>>

NextPack == Vectorize \/ Reorganize \/ Resize

SpecPack == InitPack /\ [][NextPack]_vars

(***************************************************************************)
(* derive_adj: the returned vector as curl and divergence cells.           *)
(***************************************************************************)
\* cell (i,j) of the curl and of the divergence that adj holds
CurlAt(i, j) == adj[i*N1 + j]
DivAt(i, j) == FNeg(adj[M1*N1 + i*N1 + j])

\* <a, b> of two vectors of numbers
Dot(a, b) == matmul(a, b)

\* C1: <derive_ax(x), e> = <x, derive_adj(e)> for every x, e, mask, spacing
\* and each of the four (ZBC,MBC) combinations.
AdjointIdentity ==
    {"derive_ax", "derive_adj"} \subseteq done =>
        /\ \A k \in DOMAIN adj : ~isnan(adj[k])
        /\ Dot(ax, e) = Dot(x, [k \in DOMAIN adj |-> adj[k].v])

\* C2: the centered difference of ja equals grad_ja, component by component.
GradientIsExact ==
    {"ja", "grad_ja"} \subseteq done =>
        \A k \in DOMAIN gj : gj[k] = F(fd[k])

\* C3: derive_adj leaves no cell of curl or divergence at NaN.
NoUndefinedCell ==
    "derive_adj" \in done => \A k \in DOMAIN adj : ~isnan(adj[k])

\* C4: re-organizing the packed x returns IPSI and IPHI; resizing the
\* valid-only y through the mask restores every valid entry of U and V at
\* its cell and puts zero at every invalid cell.
ZeroFilled(A) == [i \in DOMAIN A |-> [j \in DOMAIN A[i] |->
                    IF isnan(A[i][j]) THEN 0 ELSE A[i][j].v]]

PackingRoundTrips ==
    /\ "reorganize" \in done => psi = IPSI /\ phi = IPHI
    /\ "resize" \in done => u = ZeroFilled(U) /\ v = ZeroFilled(V)

PackingRoundTripsWitness ==
    /\ done = {"reorganize", "resize"}
    /\ \E i \in DOMAIN V, j \in DOMAIN V[0] : isnan(V[i][j])
    /\ \E i \in DOMAIN V, j \in DOMAIN V[0] : ~isnan(V[i][j]) /\ V[i][j].v # 0 /\ v[i][j] # 0
    /\ \E i \in DOMAIN phi, j \in DOMAIN phi[0] : phi[i][j] # 0

\* C5: on the 4x6 grid with every sample valid, a residual confined to the
\* last q-point column leaves the first column of curl and divergence at
\* zero when ZBC is closed, and reaches it when ZBC is periodic.
NumQ == (M1-1)*(N1-1)
OnlyLastColumn(w) ==
    /\ \E k \in DOMAIN w : w[k] # 0
    /\ \A k \in DOMAIN w : w[k] # 0 => (k % NumQ) % (N1-1) = N1-2
WrapScenario ==
    /\ "derive_adj" \in done
    /\ M1 = 4 /\ N1 = 6
    /\ IDATA = AllValid(2*NumQ)
    /\ OnlyLastColumn(e)
FirstColumnZero == \A i \in 0..(M1-1) : CurlAt(i, 0) = F(0) /\ DivAt(i, 0) = F(0)
FirstColumnReached ==
    \E i \in 0..(M1-1) :
        \/ ~isnan(CurlAt(i, 0)) /\ CurlAt(i, 0) # F(0)
        \/ ~isnan(DivAt(i, 0)) /\ DivAt(i, 0) # F(0)

PeriodicWrap ==
    /\ WrapScenario /\ ZBC = "closed" => FirstColumnZero
    /\ WrapScenario /\ ZBC = "periodic" => FirstColumnReached

\* The same with closed meridional edges, where no corner is left at NaN.
\* (The drawn residuals have one nonzero entry; each of them reaches the
\* first column when ZBC is periodic.)
PeriodicWrapClosedMBC == MBC = "closed" => PeriodicWrap

\* C6: along an axis whose boundary condition is closed, every non-corner
\* border cell of curl and divergence equals its inward neighbour; with both
\* axes closed the corners do too.
SameCell(a, b) == ~isnan(a) /\ ~isnan(b) /\ a = b
ZonalCopy(i) ==
    /\ SameCell(CurlAt(i, 0), CurlAt(i, 1))
    /\ SameCell(CurlAt(i, N1-1), CurlAt(i, N1-2))
    /\ SameCell(DivAt(i, 0), DivAt(i, 1))
    /\ SameCell(DivAt(i, N1-1), DivAt(i, N1-2))
MeridionalCopy(j) ==
    /\ SameCell(CurlAt(0, j), CurlAt(1, j))
    /\ SameCell(CurlAt(M1-1, j), CurlAt(M1-2, j))
    /\ SameCell(DivAt(0, j), DivAt(1, j))
    /\ SameCell(DivAt(M1-1, j), DivAt(M1-2, j))

ClosedEdgeCopy ==
    "derive_adj" \in done =>
        /\ ZBC = "closed" => \A i \in 1..(M1-2) : ZonalCopy(i)
        /\ MBC = "closed" => \A j \in 1..(N1-2) : MeridionalCopy(j)
        /\ ZBC = "closed" /\ MBC = "closed" =>
              /\ \A i \in 0..(M1-1) : ZonalCopy(i)
              /\ \A j \in 0..(N1-1) : MeridionalCopy(j)

ClosedEdgeCopyWitness ==
    /\ "derive_adj" \in done
    /\ ZBC = "closed" /\ MBC = "periodic"
    /\ CurlAt(1, 0) # F(0)
    /\ DivAt(M1-2, N1-1) # F(0)

\* the positions of a call at which the minimizer has been invoked
Invoked == {"minimize", "evaluated", "minimized", "returned"}

\* C7: a tag outside {closed, periodic} ends the call in an error before the
\* minimizer is invoked, and nothing is returned.
InvalidTagIsFatal ==
    (ZBC \notin Tags \/ MBC \notin Tags) => pc \notin Invoked

\* C8: arrays whose shapes do not fit end the call in an error before the
\* minimizer, ja or grad_ja runs, and nothing is returned.
ShapesFit ==
    /\ shape(IPHI) = shape(IPSI)
    /\ shape(DX) = shape(IPSI)
    /\ shape(DY) = shape(IPSI)
    /\ shape(U) = <<rows(IPSI) - 1, cols(IPSI) - 1>>
    /\ shape(V) = shape(U)

ShapeMismatchIsFatal ==
    ~ShapesFit => pc \notin Invoked

\* C9: when every entry of U and V is NaN the call ends in an error instead
\* of running the minimizer and returning fields.
AllInvalid ==
    /\ \A i \in DOMAIN U, j \in DOMAIN U[0] : isnan(U[i][j])
    /\ \A i \in DOMAIN V, j \in DOMAIN V[0] : isnan(V[i][j])

EmptyObservationsIsFatal ==
    AllInvalid => pc \notin Invoked

\* C10: when the minimizer stops on its exhausted budget, psi_lietal returns
\* the fields it found and the caller can tell from what is returned that the
\* run did not converge.
NonConvergenceSurfaced ==
    (pc = "returned" /\ ~pq.success) =>
        /\ ret.psi = reshape(pq.x, 0, M1, N1)
        /\ ret.phi = reshape(pq.x, M1*N1, M1, N1)
        /\ "success" \in DOMAIN ret
        /\ ret.success = FALSE

====
